---------------------------- MODULE Spec2Model ----------------------------
(***************************************************************************)
(* Verification model of resiliparse: the WARC ArchiveIterator of          *)
(* src/resiliparse/warc.pyx.                                               *)
(*                                                                         *)
(* Byte strings are TLA+ strings; byte i (0-based) of s is At(s, i).       *)
(* size_t values are held in two's complement: a negative integer v stands *)
(* for the size_t value 2^64 + v, so that C's wrapping subtraction is the  *)
(* integer subtraction and strnpos (size_t -1) is -1.                      *)
(***************************************************************************)
EXTENDS Integers, Sequences, FiniteSets, TLC

(***************************************************************************)
(* Bounds of the model.                                                    *)
(***************************************************************************)
\* longest header block (in lines) of the header-block stream family
MaxHdrLines == 4
\* most units (records, stray lines) of the multi-record stream family
MaxUnits == 3
\* most stray lines before the record of the seek stream family
MaxSeekLines == 2
\* most next() calls a consumer makes on one iterator
MaxCalls == 4
\* entries parse_header_block may push before the model stops following it
MaxEntries == 6
\* fragments of a "flow" document, items of a list, parts of a page
MaxFrags == 2
MaxItems == 2
MaxParts == 2
\* longest argument of a call of strip_str on its own
MaxStripLen == 4
\* most elements between <body> and the element the classifier is called on
MaxNest == 3

(***************************************************************************)
(* String primitives (libstdc++ std::string, <cctype>).                    *)
(***************************************************************************)
strnpos == -1

\* s[i], 0-based; s[s.size()] is the terminating NUL, which is no space
At(s, i) == IF i < Len(s) THEN SubSeq(s, i + 1, i + 1) ELSE "NUL"

\* s.substr(pos, count); count is a size_t in two's complement (negative = huge)
Substr(s, pos, count) ==
    IF count < 0 \/ pos + count > Len(s)
    THEN SubSeq(s, pos + 1, Len(s))
    ELSE SubSeq(s, pos + 1, pos + count)

isspace(c) == c \in {" ", "\t", "\n", "\r", "\f"}

UpperChars == "ABCDEFGHIJKLMNOPQRSTUVWXYZ"
LowerChars == "abcdefghijklmnopqrstuvwxyz"
UpperSet == {At(UpperChars, i) : i \in 0..25}
LowerOf ==
    [c \in UpperSet |-> At(LowerChars, CHOOSE i \in 0..25 : At(UpperChars, i) = c)]

tolower(c) == IF c \in UpperSet THEN LowerOf[c] ELSE c

RECURSIVE str_to_lower(_)
str_to_lower(s) ==
    IF Len(s) = 0 THEN ""
    ELSE tolower(At(s, 0)) \o str_to_lower(Substr(s, 1, strnpos))

\* s.find(needle, from): first 0-based offset >= from of needle in s, or strnpos
RECURSIVE FindFrom(_, _, _)
FindFrom(s, needle, from) ==
    IF from + Len(needle) > Len(s) THEN strnpos
    ELSE IF SubSeq(s, from + 1, from + Len(needle)) = needle THEN from
    ELSE FindFrom(s, needle, from + 1)

Find(s, needle) == FindFrom(s, needle, 0)

\* the two loops of strip_str: a loop that ends without break leaves its
\* variable at the last value of the range (and untouched on an empty range)
RECURSIVE StripStartFrom(_, _)
StripStartFrom(s, start) ==
    IF ~isspace(At(s, start)) \/ start + 1 >= Len(s) THEN start
    ELSE StripStartFrom(s, start + 1)

StripStart(s) == IF Len(s) = 0 THEN 0 ELSE StripStartFrom(s, 0)

RECURSIVE StripEndFrom(_, _)
StripEndFrom(s, end) ==
    IF ~isspace(At(s, end)) \/ end = 0 THEN end
    ELSE StripEndFrom(s, end - 1)

StripEnd(s) == IF Len(s) = 0 THEN Len(s) ELSE StripEndFrom(s, Len(s) - 1)

strip_str(s) == Substr(s, StripStart(s), StripEnd(s) - StripStart(s) + 1)

\* std::stoi (strtol, base 10): skip leading white space, take an optional
\* sign and the longest run of digits; std::invalid_argument without a digit
DigitChars == "0123456789"

IsDigit(c) == \E d \in 0..9 : At(DigitChars, d) = c

DigitVal(c) == CHOOSE d \in 0..9 : At(DigitChars, d) = c

RECURSIVE StoiSkipSpace(_, _)
StoiSkipSpace(s, i) ==
    IF i < Len(s) /\ isspace(At(s, i)) THEN StoiSkipSpace(s, i + 1) ELSE i

StoiSignAt(s) == StoiSkipSpace(s, 0)

StoiDigitsAt(s) ==
    IF At(s, StoiSignAt(s)) \in {"+", "-"} THEN StoiSignAt(s) + 1 ELSE StoiSignAt(s)

RECURSIVE StoiAcc(_, _, _)
StoiAcc(s, i, acc) ==
    IF IsDigit(At(s, i)) THEN StoiAcc(s, i + 1, 10 * acc + DigitVal(At(s, i)))
    ELSE acc

stoi_throws(s) == ~IsDigit(At(s, StoiDigitsAt(s)))

stoi(s) ==
    IF At(s, StoiSignAt(s)) = "-"
    THEN 0 - StoiAcc(s, StoiDigitsAt(s), 0)
    ELSE StoiAcc(s, StoiDigitsAt(s), 0)

(***************************************************************************)
(* BufferedReader over the stream (stream_io): the unread part of the      *)
(* stream starts at byte offset p.                                         *)
(***************************************************************************)
\* readline(): the bytes through the next CRLF, or all that is left; "" at EOF
readline(s, p) ==
    IF FindFrom(s, "\r\n", p) = strnpos THEN SubSeq(s, p + 1, Len(s))
    ELSE SubSeq(s, p + 1, FindFrom(s, "\r\n", p) + 2)

\* read(n): exactly n bytes, or all that is left when fewer remain
read(s, p, n) == Substr(s, p, n)

(***************************************************************************)
(* WarcRecord                                                              *)
(***************************************************************************)
RecordTypes ==
    {"warcinfo", "response", "resource", "request", "metadata", "revisit",
     "conversion", "continuation"}

\* WarcRecord.__init__; _reader is a declared attribute that is never assigned
WarcRecordInit ==
    [record_type |-> "unknown", headers |-> <<>>, is_http |-> FALSE,
     http_status_line |-> "", http_headers |-> <<>>, content_length |-> 0,
     http_content_length |-> 0, reader |-> "None"]

\* WarcRecord._decode_header_map: the dict comprehension over the vector, as
\* the sequence of the dict's items (a repeated key keeps its first place and
\* takes the later value)
RECURSIVE DictItems(_, _)
DictItems(hs, items) ==
    IF Len(hs) = 0 THEN items
    ELSE IF \E k \in 1..Len(items) : items[k][1] = Head(hs)[1]
    THEN DictItems(Tail(hs),
             [k \in 1..Len(items) |->
                 IF items[k][1] = Head(hs)[1] THEN Head(hs) ELSE items[k]])
    ELSE DictItems(Tail(hs), Append(items, Head(hs)))

_decode_header_map(header_map) == DictItems(header_map, <<>>)

\* the properties WarcRecord.headers and WarcRecord.http_headers
headers_property(rec) == _decode_header_map(rec.headers)

http_headers_property(rec) == _decode_header_map(rec.http_headers)

_set_record_type(rec, record_type) ==
    IF str_to_lower(record_type) \in RecordTypes
    THEN [rec EXCEPT !.record_type = str_to_lower(record_type)]
    ELSE rec

(***************************************************************************)
(* ArchiveIterator.parse_header_block: one pass of its loop body on a line *)
(* that is not the bare CRLF.  hs is the vector built so far, hsl the flag *)
(* has_status_line.                                                        *)
(***************************************************************************)
HeaderDelimPos(line) ==
    IF Find(line, ":") = strnpos THEN Len(line) - 1 ELSE Find(line, ":")

ParseHeaderLine(hs, hsl, line) ==
    IF isspace(At(line, 0)) /\ Len(hs) > 0
    THEN [headers |-> [hs EXCEPT ![Len(hs)] =
                          <<hs[Len(hs)][1],
                            hs[Len(hs)][2] \o "\n" \o strip_str(line)>>],
          has_status_line |-> hsl]
    ELSE IF hsl
    THEN [headers |-> Append(hs, <<"", strip_str(line)>>),
          has_status_line |-> FALSE]
    ELSE [headers |-> Append(hs,
              <<strip_str(Substr(line, 0, HeaderDelimPos(line))),
                strip_str(Substr(line, HeaderDelimPos(line) + 1, strnpos))>>),
          has_status_line |-> FALSE]

(***************************************************************************)
(* ArchiveIterator.read_next_record: the loop over the parsed WARC headers.*)
(* The result is the record and whether stoi threw.                        *)
(***************************************************************************)
ParseCountLimit == 3

RECURSIVE ScanHeaders(_, _, _, _)
ScanHeaders(hs, i, rec, parse_count) ==
    IF i > Len(hs) \/ parse_count >= ParseCountLimit
    THEN [rec |-> rec, threw |-> FALSE]
    ELSE LET hkey == str_to_lower(hs[i][1])
             hval == hs[i][2]
         IN IF hkey = "content-length"
            THEN IF stoi_throws(hval)
                 THEN [rec |-> rec, threw |-> TRUE]
                 ELSE ScanHeaders(hs, i + 1,
                          [rec EXCEPT !.content_length = stoi(hval)],
                          parse_count + 1)
            ELSE IF hkey = "warc-type"
            THEN ScanHeaders(hs, i + 1, _set_record_type(rec, hval),
                             parse_count + 1)
            ELSE IF hkey = "content-type" /\ Find(hval, "application/http") = 0
            THEN ScanHeaders(hs, i + 1, [rec EXCEPT !.is_http = TRUE],
                             parse_count)
            ELSE ScanHeaders(hs, i + 1, rec, parse_count)

(***************************************************************************)
(* Input streams.  Every line of a modelled stream ends in CRLF.           *)
(***************************************************************************)
RECURSIVE Concat(_)
Concat(ss) == IF Len(ss) = 0 THEN "" ELSE Head(ss) \o Concat(Tail(ss))

\* Family "block": one version line, a header block of free lines, a tail.
HdrLines ==
    {"Content-Length: 2\r\n",
     "WARC-Type: Response\r\n",
     "warc-type: bogus\r\n",
     "Content-Type: application/http; msgtype=response\r\n",
     "Content-Type: text/application/http\r\n",
     " x\r\n"}

BlockTails ==
    {"",
     "\r\nhi\r\n\r\n",
     "\r\nHTTP/1.1 200 OK\r\n x\r\nA: b\r\n\r\nhi\r\n\r\n"}

HdrBlocks == UNION {[1..n -> HdrLines] : n \in 0..MaxHdrLines}

\* Family "units": a sequence of whole records and stray lines.
\* Well-formed records: version line, header block with Content-Length,
\* exactly Content-Length payload bytes, two CRLF.
RecPlain ==
    "WARC/1.0\r\nWARC-Type: resource\r\nContent-Length: 2\r\n\r\nhi\r\n\r\n"
RecEmpty ==
    "WARC/1.0\r\nWARC-Type: response\r\nContent-Length: 0\r\n\r\n\r\n\r\n"
RecVersionPayload ==
    "WARC/1.1\r\nContent-Length: 19\r\n\r\nWARC/1.0\r\ngarbage\r\n\r\n\r\n"
RecHttp ==
    "WARC/1.0\r\nWARC-Type: response\r\n"
    \o "Content-Type: application/http; msgtype=response\r\n"
    \o "Content-Length: 46\r\n\r\n"
    \o "HTTP/1.1 200 OK\r\nContent-Type: text/html\r\n\r\nhi\r\n\r\n"
RecHttpNoBlock ==
    "WARC/1.0\r\nContent-Type: application/http\r\nContent-Length: 2\r\n\r\nhi\r\n\r\n"
RecHttpEmptyBlock ==
    "WARC/1.0\r\nContent-Type: application/http\r\nContent-Length: 4\r\n\r\n\r\nhi\r\n\r\n"

WellFormedUnits ==
    {RecPlain, RecEmpty, RecVersionPayload, RecHttp, RecHttpNoBlock,
     RecHttpEmptyBlock}

\* Malformed units: no Content-Length, a line that is no version line
RecNoLength == "WARC/1.0\r\nWARC-Type: metadata\r\n\r\n\r\n\r\n"
StrayLine == "garbage\r\n"

Units == WellFormedUnits \cup {RecNoLength, StrayLine}

UnitSeqs == UNION {[1..n -> Units] : n \in 0..MaxUnits}

\* Family "seek": stray lines, then nothing or one record.
SeekLines == {"\r\n", " \r\n", "\t \r\n", "garbage\r\n", " WARC/1.1 \r\n"}

SeekPrefixes == UNION {[1..n -> SeekLines] : n \in 0..MaxSeekLines}

\* records whose Content-Length value is no decimal number
RecLengthDigitPrefix == "WARC/1.0\r\nContent-Length: 2x\r\n\r\nhi\r\n\r\n"
RecLengthNoDigit == "WARC/1.0\r\nContent-Length: x\r\n\r\nhi\r\n\r\n"

SeekTails == {"", RecPlain, RecLengthDigitPrefix, RecLengthNoDigit}

\* offset in Concat(us) at which unit i (1-based) starts
UnitStart(us, i) == Len(Concat(SubSeq(us, 1, i - 1)))

(***************************************************************************)
(* State.                                                                  *)
(*   input       how the stream was drawn (its family and parts)           *)
(*   stream, pos the bytes of the IOStream and the reader's offset in them *)
(*   pc          where the iterator is: "idle" between next() calls,       *)
(*               "seek" in the version loop, "warc_headers" and            *)
(*               "http_headers" in parse_header_block, "payload" before    *)
(*               the final read, "crashed" after the process died          *)
(*   headers, has_status_line, bytes_consumed                              *)
(*               the locals of the running parse_header_block              *)
(*   record      the WarcRecord under construction                         *)
(*   http_header_bytes  the local of read_next_record                      *)
(*   rec_start, http_start, body_start                                     *)
(*               history: offsets of the record's version line, of the     *)
(*               first byte after its WARC header block and of the first   *)
(*               byte after all its header blocks                          *)
(*   outcomes    history: how each next() call ended: "record", "eof" and  *)
(*               "malformed" (the two StopIterations), "terminate" (an     *)
(*               uncaught C++ exception), "undefined" (a crash in          *)
(*               undefined behaviour)                                      *)
(*   yielded     history: the records returned, with their offsets         *)
(***************************************************************************)
VARIABLES input, stream, pos, pc, headers, has_status_line, bytes_consumed,
          record, http_header_bytes, rec_start, http_start, body_start,
          outcomes, yielded

\* the state of the HTML extractor (described with its actions)
VARIABLES xin, xpc, xroot, xskip, walk, ser, ser_i, result, visits, numbered

wvars == <<input, stream, pos, pc, headers, has_status_line, bytes_consumed,
           record, http_header_bytes, rec_start, http_start, body_start,
           outcomes, yielded>>

xvars == <<xin, xpc, xroot, xskip, walk, ser, ser_i, result, visits,
           numbered>>

\* one call of strip_str: its argument and, once it has returned, the string
\* it returned
VARIABLES strip_arg, strip_ret

svars == <<strip_arg, strip_ret>>

\* one call of _is_main_content_node: the document, the node and
\* allow_comments it is called with and, once it has returned, its verdict
VARIABLES cdoc, cnode, callow, cret

cvars == <<cdoc, cnode, callow, cret>>

vars == <<wvars, xvars, svars, cvars>>

\* no call of strip_str on its own is under way
StripIdle ==
    /\ strip_arg = ""
    /\ strip_ret = <<>>

\* no call of _is_main_content_node on its own is under way
ClassifyIdle ==
    /\ cdoc = <<>>
    /\ cnode = 0
    /\ callow = FALSE
    /\ cret = <<>>

\* no call of extract_plain_text is under way
ExtractIdle ==
    /\ xin = [family |-> "none"]
    /\ xpc = "none"
    /\ xroot = 0
    /\ xskip = {}
    /\ walk = <<>>
    /\ ser = <<>>
    /\ ser_i = 0
    /\ result = ""
    /\ visits = <<>>
    /\ numbered = <<>>

Inputs ==
    {[family |-> "block", parts |-> b, tail |-> t] :
         b \in HdrBlocks, t \in BlockTails}
    \cup {[family |-> "units", parts |-> us, tail |-> ""] : us \in UnitSeqs}
    \cup {[family |-> "seek", parts |-> ls, tail |-> t] :
              ls \in SeekPrefixes, t \in SeekTails}

StreamOf(in) ==
    IF in.family = "block"
    THEN "WARC/1.0\r\n" \o Concat(in.parts) \o in.tail
    ELSE Concat(in.parts) \o in.tail

\* ArchiveIterator.__init__
Init ==
    /\ input \in Inputs
    /\ stream = StreamOf(input)
    /\ pos = 0
    /\ pc = "idle"
    /\ headers = <<>>
    /\ has_status_line = FALSE
    /\ bytes_consumed = 0
    /\ record = WarcRecordInit
    /\ http_header_bytes = 0
    /\ rec_start = 0
    /\ http_start = 0
    /\ body_start = 0
    /\ outcomes = <<>>
    /\ yielded = <<>>
    /\ ExtractIdle
    /\ StripIdle
    /\ ClassifyIdle

\* the consumer calls __next__
NextCall ==
    /\ pc = "idle"
    /\ Len(outcomes) < MaxCalls
    /\ pc' = "seek"
    /\ UNCHANGED <<input, stream, pos, headers, has_status_line, bytes_consumed,
                   record, http_header_bytes, rec_start, http_start, body_start,
                   outcomes, yielded>>
    /\ UNCHANGED <<xvars, svars, cvars>>

\* read_next_record: one pass of the version-line loop
SeekVersion ==
    /\ pc = "seek"
    /\ LET version_line == readline(stream, pos)
       IN /\ pos' = pos + Len(version_line)
          /\ IF Len(version_line) = 0
             THEN /\ pc' = "idle"
                  /\ outcomes' = Append(outcomes, "eof")
                  /\ UNCHANGED <<headers, has_status_line, bytes_consumed,
                                 record, http_header_bytes, rec_start>>
             ELSE IF Len(strip_str(version_line)) = 0
             THEN UNCHANGED <<pc, outcomes, headers, has_status_line,
                              bytes_consumed, record, http_header_bytes,
                              rec_start>>
             ELSE IF strip_str(version_line) \in {"WARC/1.0", "WARC/1.1"}
             THEN /\ pc' = "warc_headers"
                  /\ record' = WarcRecordInit
                  /\ headers' = <<>>
                  /\ has_status_line' = FALSE
                  /\ bytes_consumed' = 0
                  /\ http_header_bytes' = 0
                  /\ rec_start' = pos
                  /\ UNCHANGED outcomes
             ELSE /\ pc' = "idle"
                  /\ outcomes' = Append(outcomes, "malformed")
                  /\ UNCHANGED <<headers, has_status_line, bytes_consumed,
                                 record, http_header_bytes, rec_start>>
    /\ UNCHANGED <<input, stream, http_start, body_start, yielded>>
    /\ UNCHANGED <<xvars, svars, cvars>>

\* parse_header_block() on the WARC headers: one pass of its loop; on the bare
\* CRLF the block is returned and read_next_record scans it
WarcHeaderLine ==
    /\ pc = "warc_headers"
    /\ Len(headers) < MaxEntries
    /\ LET line == readline(stream, pos)
           scan == ScanHeaders(headers, 1, record, 0)
       IN /\ pos' = pos + Len(line)
          /\ IF line = "\r\n"
             THEN IF scan.threw
                  THEN /\ pc' = "crashed"
                       /\ outcomes' = Append(outcomes, "terminate")
                       /\ UNCHANGED <<headers, has_status_line, bytes_consumed,
                                      record, http_start, body_start>>
                  ELSE /\ record' = [scan.rec EXCEPT !.headers = headers]
                       /\ headers' = <<>>
                       /\ bytes_consumed' = 0
                       /\ has_status_line' = scan.rec.is_http
                       /\ pc' = IF scan.rec.is_http THEN "http_headers"
                                ELSE "payload"
                       /\ http_start' = pos + Len(line)
                       /\ body_start' = pos + Len(line)
                       /\ UNCHANGED outcomes
             ELSE /\ headers' = ParseHeaderLine(headers, FALSE, line).headers
                  /\ bytes_consumed' = bytes_consumed + Len(line)
                  /\ UNCHANGED <<pc, has_status_line, record, http_start,
                                 body_start, outcomes>>
    /\ UNCHANGED <<input, stream, http_header_bytes, rec_start, yielded>>
    /\ UNCHANGED <<xvars, svars, cvars>>

\* what reading element 0 of an empty vector may deliver
UndefinedStatusLines == {"", "?"}

\* parse_header_block(True, &http_header_bytes) on the inner HTTP block: one
\* pass of its loop; on the bare CRLF read_next_record takes the status line
\* off the vector.  On an empty vector that is undefined behaviour: the
\* process dies or goes on with an arbitrary status line.
HttpHeaderLine ==
    /\ pc = "http_headers"
    /\ Len(headers) < MaxEntries
    /\ LET line == readline(stream, pos)
           H == bytes_consumed + Len(line)
       IN /\ pos' = pos + Len(line)
          /\ IF line = "\r\n"
             THEN /\ \/ /\ Len(headers) > 0
                        /\ record' =
                             [record EXCEPT
                                !.http_headers = Tail(headers),
                                !.http_status_line = headers[1][2],
                                !.http_content_length =
                                    record.content_length - H]
                        /\ pc' = "payload"
                        /\ UNCHANGED outcomes
                     \/ /\ Len(headers) = 0
                        /\ \E garbage \in UndefinedStatusLines :
                             record' =
                               [record EXCEPT
                                  !.http_headers = <<>>,
                                  !.http_status_line = garbage,
                                  !.http_content_length =
                                      record.content_length - H]
                        /\ pc' = "payload"
                        /\ UNCHANGED outcomes
                     \/ /\ Len(headers) = 0
                        /\ pc' = "crashed"
                        /\ outcomes' = Append(outcomes, "undefined")
                        /\ UNCHANGED record
                  /\ http_header_bytes' = H
                  /\ body_start' = pos + Len(line)
                  /\ bytes_consumed' = H
                  /\ UNCHANGED <<headers, has_status_line>>
             ELSE /\ headers' =
                       ParseHeaderLine(headers, has_status_line, line).headers
                  /\ has_status_line' =
                       ParseHeaderLine(headers, has_status_line, line).has_status_line
                  /\ bytes_consumed' = H
                  /\ UNCHANGED <<pc, record, http_header_bytes, body_start,
                                 outcomes>>
    /\ UNCHANGED <<input, stream, rec_start, http_start, yielded>>
    /\ UNCHANGED <<xvars, svars, cvars>>

\* read_next_record: the final read of content_length - http_header_bytes
\* bytes (a size_t difference) and the return of the record
ReadPayload ==
    /\ pc = "payload"
    /\ LET content == read(stream, pos, record.content_length - http_header_bytes)
       IN /\ pos' = pos + Len(content)
          /\ pc' = "idle"
          /\ outcomes' = Append(outcomes, "record")
          /\ yielded' = Append(yielded,
                 [record |-> record, start |-> rec_start,
                  inner |-> http_start, body |-> body_start,
                  http_header_bytes |-> http_header_bytes,
                  returned_at |-> pos + Len(content)])
    /\ UNCHANGED <<input, stream, headers, has_status_line, bytes_consumed,
                   record, http_header_bytes, rec_start, http_start,
                   body_start>>
    /\ UNCHANGED <<xvars, svars, cvars>>

Next ==
    \/ NextCall
    \/ SeekVersion
    \/ WarcHeaderLine
    \/ HttpHeaderLine
    \/ ReadPayload

Spec == Init /\ [][Next]_vars

(***************************************************************************)
(* Vocabulary of the properties.                                           *)
(***************************************************************************)
\* a <= b on size_t values (two's complement: a negative integer is huge)
SizeLe(a, b) == IF (a >= 0) = (b >= 0) THEN a <= b ELSE a >= 0

Yielded == {yielded[i] : i \in 1..Len(yielded)}

HeaderSet(hs) == {hs[i] : i \in 1..Len(hs)}

\* the header entries of hs whose name is `name`, case-insensitively
Named(hs, name) == {h \in HeaderSet(hs) : str_to_lower(h[1]) = name}

IsWhite(c) == c \in {" ", "\t", "\n", "\r", "\f"}

\* s without its leading and trailing white space
RECURSIVE Trimmed(_)
Trimmed(s) ==
    IF Len(s) = 0 THEN ""
    ELSE IF IsWhite(SubSeq(s, 1, 1)) THEN Trimmed(SubSeq(s, 2, Len(s)))
    ELSE IF IsWhite(SubSeq(s, Len(s), Len(s))) THEN Trimmed(SubSeq(s, 1, Len(s) - 1))
    ELSE s

InHeaderBlock == pc \in {"warc_headers", "http_headers"}

\* the line the next readline() returns
NextLine == readline(stream, pos)

AllWellFormed ==
    /\ input.family = "units"
    /\ \A i \in 1..Len(input.parts) : input.parts[i] \in WellFormedUnits

(***************************************************************************)
(* C1: every yielded record has 0 <= http_content_length <= content_length *)
(* (as size_t values), and http_content_length = content_length when       *)
(* is_http is false.                                                       *)
(***************************************************************************)
C1_HttpLengthWithinContentLength ==
    \A y \in Yielded :
        /\ SizeLe(0, y.record.http_content_length)
        /\ SizeLe(y.record.http_content_length, y.record.content_length)
        /\ ~y.record.is_http =>
               y.record.http_content_length = y.record.content_length

(***************************************************************************)
(* C2: next() does not read the payload: when it returns a record, the     *)
(* reader stands at the first byte after the record's header blocks.       *)
(***************************************************************************)
C2_NextLeavesPayloadUnread ==
    \A y \in Yielded : y.returned_at = y.body

(***************************************************************************)
(* C3: on a concatenation of N well-formed records the calls of next()     *)
(* yield the records in stream order, never more than N, and no call       *)
(* before call N + 1 signals the end of the iteration.                     *)
(***************************************************************************)
C3_WellFormedStreamYieldsEveryRecord ==
    AllWellFormed =>
        /\ Len(yielded) <= Len(input.parts)
        /\ \A i \in 1..Len(yielded) :
               yielded[i].start = UnitStart(input.parts, i)
        /\ \A k \in 1..Len(outcomes) :
               outcomes[k] \in {"eof", "malformed"} => k > Len(input.parts)

(***************************************************************************)
(* C4: a yielded record's record_type is a known variant or unknown, and   *)
(* it is unknown only if no WARC-Type header of the record carries one of  *)
(* the eight known spellings (case-insensitively).                         *)
(***************************************************************************)
C4_UnknownTypeOnlyWithoutKnownHeader ==
    \A y \in Yielded :
        /\ y.record.record_type \in RecordTypes \cup {"unknown"}
        /\ y.record.record_type = "unknown" =>
               \A h \in Named(y.record.headers, "warc-type") :
                   str_to_lower(h[2]) \notin RecordTypes

(***************************************************************************)
(* C5: once a next() call has aborted on a malformed version line, no      *)
(* later next() call on the iterator yields a record.                      *)
(***************************************************************************)
C5_AbortedIteratorStaysAborted ==
    \A i \in 1..Len(outcomes) : \A j \in 1..Len(outcomes) :
        (i < j /\ outcomes[i] = "malformed") => outcomes[j] # "record"

(***************************************************************************)
(* C6: no record is yielded whose WARC header block has no Content-Length  *)
(* header.                                                                 *)
(***************************************************************************)
C6_NoRecordWithoutContentLength ==
    \A y \in Yielded : Named(y.record.headers, "content-length") # {}

(***************************************************************************)
(* C7: when the header block parser reads at EOF (no bare CRLF line has    *)
(* ended the block), that step ends the parse: the parser does not go on   *)
(* looping and no record is built from the block.                          *)
(***************************************************************************)
C7_EofEndsHeaderBlockParse ==
    [][(InHeaderBlock /\ Len(NextLine) = 0) =>
          (pc' \notin {"warc_headers", "http_headers", "payload"}
           /\ yielded' = yielded)]_vars

(***************************************************************************)
(* C8: a header line that begins with white space is a continuation: with  *)
(* a previous entry its stripped content is appended after "\n" to that    *)
(* entry's value; as the first line of the block it adds no entry.         *)
(***************************************************************************)
C8_ContinuationLine ==
    [][(InHeaderBlock /\ Len(NextLine) > 0 /\ NextLine # "\r\n"
        /\ IsWhite(SubSeq(NextLine, 1, 1))) =>
          IF Len(headers) = 0
          THEN headers' = <<>>
          ELSE headers' = [headers EXCEPT ![Len(headers)] =
                   <<headers[Len(headers)][1],
                     headers[Len(headers)][2] \o "\n" \o Trimmed(NextLine)>>]]_vars

(***************************************************************************)
(* C9: for a yielded record with is_http, http_status_line is the stripped *)
(* first line of the inner HTTP block and http_headers are the entries of  *)
(* the remaining lines; an inner block that is only the bare CRLF has the  *)
(* empty status line and no headers, and the process does not die on it.   *)
(***************************************************************************)
InnerFirstLine(y) == readline(stream, y.inner)

C9_StatusLineIsFirstInnerLine ==
    /\ \A y \in Yielded :
           y.record.is_http =>
               /\ y.record.http_status_line =
                      IF InnerFirstLine(y) = "\r\n" THEN ""
                      ELSE Trimmed(InnerFirstLine(y))
               /\ \A h \in HeaderSet(y.record.http_headers) : h[1] # ""
               /\ InnerFirstLine(y) = "\r\n" => y.record.http_headers = <<>>
    /\ \A k \in 1..Len(outcomes) : outcomes[k] # "undefined"

(***************************************************************************)
(* C10: a yielded record has is_http exactly when one of its WARC          *)
(* Content-Type headers has a value beginning with application/http, and   *)
(* the inner HTTP block was parsed exactly when is_http.                   *)
(***************************************************************************)
BeginsWith(s, prefix) ==
    Len(s) >= Len(prefix) /\ SubSeq(s, 1, Len(prefix)) = prefix

C10_IsHttpIffHttpContentType ==
    \A y \in Yielded :
        /\ y.record.is_http <=>
               \E h \in Named(y.record.headers, "content-type") :
                   BeginsWith(h[2], "application/http")
        /\ y.record.is_http <=> (y.body # y.inner)

(***************************************************************************)
(* C11: the headers a yielded record exposes are the (name, value) pairs   *)
(* of its parsed header block, all of them, in stream order.               *)
(***************************************************************************)
C11_ExposedHeadersKeepEveryPair ==
    \A y \in Yielded :
        /\ headers_property(y.record) = y.record.headers
        /\ http_headers_property(y.record) = y.record.http_headers

(***************************************************************************)
(* C12: no record is yielded whose Content-Length value holds a byte that  *)
(* is no decimal digit.                                                    *)
(***************************************************************************)
RECURSIVE AllDigits(_)
AllDigits(s) ==
    Len(s) = 0
    \/ (SubSeq(s, 1, 1) \in {"0", "1", "2", "3", "4", "5", "6", "7", "8", "9"}
        /\ AllDigits(SubSeq(s, 2, Len(s))))

C12_NonDigitContentLengthEndsIteration ==
    \A y \in Yielded :
        \A h \in Named(y.record.headers, "content-length") : AllDigits(h[2])

(***************************************************************************)
(* C13: one pass of the version loop: at EOF the call signals the end of   *)
(* the iteration; a line of white space only is skipped; a line whose      *)
(* stripped content is WARC/1.0 or WARC/1.1 starts a record; any other     *)
(* line ends the iteration without a record.                               *)
(***************************************************************************)
C13_SeekVersionStep ==
    [][pc = "seek" =>
          IF Len(NextLine) = 0
          THEN pc' = "idle" /\ outcomes' = Append(outcomes, "eof")
          ELSE IF Len(Trimmed(NextLine)) = 0
          THEN pc' = "seek" /\ outcomes' = outcomes
          ELSE IF Trimmed(NextLine) \in {"WARC/1.0", "WARC/1.1"}
          THEN pc' = "warc_headers" /\ outcomes' = outcomes
          ELSE pc' = "idle" /\ outcomes' = Append(outcomes, "malformed")]_vars

(***************************************************************************)
(* HTML extractor of src/resiliparse/resiliparse/extract/html2text.pyx.    *)
(*                                                                         *)
(* A DOM is the sequence of its nodes in document order; each node carries *)
(* its depth below the document node (depth 0).  A node is named by its    *)
(* index in the sequence and 0 is the NULL pointer.  A code point outside  *)
(* ASCII is written as one stand-in character.                             *)
(***************************************************************************)
NoAttrs == [a \in {} |-> ""]

Element(name, depth, attrs) ==
    [type |-> "element", local_name |-> name, depth |-> depth, data |-> "",
     attrs |-> attrs]

Text(depth, data) ==
    [type |-> "text", local_name |-> "#text", depth |-> depth, data |-> data,
     attrs |-> NoAttrs]

Comment(depth, data) ==
    [type |-> "comment", local_name |-> "#comment", depth |-> depth,
     data |-> data, attrs |-> NoAttrs]

Document ==
    [type |-> "document", local_name |-> "#document", depth |-> 0,
     data |-> "", attrs |-> NoAttrs]

\* lxb_dom_node_t.first_child
first_child(d, node) ==
    IF node < Len(d) /\ d[node + 1].depth = d[node].depth + 1
    THEN node + 1 ELSE 0

\* the last node of the subtree of node
RECURSIVE SubtreeEnd(_, _, _)
SubtreeEnd(d, node, j) ==
    IF j < Len(d) /\ d[j + 1].depth > d[node].depth
    THEN SubtreeEnd(d, node, j + 1) ELSE j

\* lxb_dom_node_t.next
next(d, node) ==
    LET j == SubtreeEnd(d, node, node) + 1
    IN IF j <= Len(d) /\ d[j].depth = d[node].depth THEN j ELSE 0

\* lxb_dom_node_t.parent
RECURSIVE ParentFrom(_, _, _)
ParentFrom(d, node, j) ==
    IF j = 0 THEN 0
    ELSE IF d[j].depth < d[node].depth THEN j
    ELSE ParentFrom(d, node, j - 1)

parent(d, node) == ParentFrom(d, node, node - 1)

\* the nodes below node
Descendants(d, node) == (node + 1)..SubtreeEnd(d, node, node)

lxb_dom_element_has_attribute(d, node, name) == name \in DOMAIN d[node].attrs

get_node_attr_sv(d, node, name) ==
    IF name \in DOMAIN d[node].attrs THEN d[node].attrs[name] ELSE ""

\* the concatenated character data of node and of the text nodes below it
RECURSIVE TextFrom(_, _, _)
TextFrom(d, j, last) ==
    IF j > last THEN ""
    ELSE (IF d[j].type = "text" THEN d[j].data ELSE "") \o TextFrom(d, j + 1, last)

get_node_text(d, node) == TextFrom(d, node, SubtreeEnd(d, node, node))

\* resiliparse.parse.html.next_element_node: node or its first following
\* sibling that is an element
RECURSIVE next_element_node(_, _)
next_element_node(d, node) ==
    IF node = 0 \/ d[node].type = "element" THEN node
    ELSE next_element_node(d, next(d, node))

\* resiliparse.parse.html.next_node: the pre-order step.  An element with
\* children is visited again, as its end tag, after its last child; a call
\* with end_tag set does not descend.
next_node(d, root_node, node, depth, end_tag) ==
    IF first_child(d, node) # 0 /\ ~end_tag
    THEN [node |-> first_child(d, node), depth |-> depth + 1, end_tag |-> FALSE]
    ELSE IF node = root_node
    THEN [node |-> 0, depth |-> depth, end_tag |-> end_tag]
    ELSE IF next(d, node) # 0
    THEN [node |-> next(d, node), depth |-> depth, end_tag |-> FALSE]
    ELSE [node |-> parent(d, node), depth |-> depth - 1, end_tag |-> TRUE]

\* resiliparse.parse.html.is_block_element
BlockTags ==
    {"address", "article", "aside", "blockquote", "br", "details", "dialog",
     "dd", "div", "dl", "dt", "fieldset", "figcaption", "figure", "footer",
     "form", "h1", "h2", "h3", "h4", "h5", "h6", "header", "hgroup", "hr",
     "li", "main", "nav", "ol", "p", "pre", "section", "table", "td", "th",
     "tr", "ul"}

is_block_element(local_name) == local_name \in BlockTags

(***************************************************************************)
(* Strings of the extractor.                                               *)
(***************************************************************************)
Back(s) == At(s, Len(s) - 1)

\* resiliparse_common.string_util.rstrip_str
RECURSIVE rstrip_str(_)
rstrip_str(s) ==
    IF Len(s) > 0 /\ isspace(Back(s)) THEN rstrip_str(SubSeq(s, 1, Len(s) - 1))
    ELSE s

RECURSIVE lstrip_str(_)
lstrip_str(s) ==
    IF Len(s) > 0 /\ isspace(At(s, 0)) THEN lstrip_str(SubSeq(s, 2, Len(s)))
    ELSE s

\* resiliparse_common.string_util.strip_str, as html2text.pyx imports it
string_util_strip_str(s) == lstrip_str(rstrip_str(s))

\* std::string(n, ' ')
RECURSIVE Spaces(_)
Spaces(n) == IF n <= 0 THEN "" ELSE " " \o Spaces(n - 1)


\* std::to_string of a size_t
RECURSIVE to_string(_)
to_string(n) ==
    IF n < 10 THEN At(DigitChars, n)
    ELSE to_string(n \div 10) \o At(DigitChars, n % 10)

\* _get_collapsed_string: the loop from byte i on, element_text built so far
RECURSIVE CollapseFrom(_, _, _)
CollapseFrom(input_str, i, element_text) ==
    IF i >= Len(input_str) THEN element_text
    ELSE IF isspace(At(input_str, i))
    THEN IF element_text = "" \/ ~isspace(Back(element_text))
         THEN CollapseFrom(input_str, i + 1, element_text \o " ")
         ELSE CollapseFrom(input_str, i + 1, element_text)
    ELSE CollapseFrom(input_str, i + 1, element_text \o At(input_str, i))

_get_collapsed_string(input_str) ==
    IF input_str = "" THEN "" ELSE CollapseFrom(input_str, 0, "")

\* the bullet U+2022 (bytes E2 80 A2), written as one stand-in character
LIST_BULLET == "*"

(***************************************************************************)
(* ExtractOpts, ExtractNode.  A shared_ptr<string> is <<>> when NULL and    *)
(* <<s>> when it points to the string s.                                   *)
(***************************************************************************)
ExtractOptsDefault ==
    [preserve_formatting |-> TRUE, list_bullets |-> TRUE, links |-> FALSE,
     alt_texts |-> TRUE, form_fields |-> FALSE, noscript |-> FALSE]

ExtractNodeInit ==
    [reference_node |-> 0, tag_id |-> "_undef", depth |-> 0,
     space_after |-> FALSE, collapse_margins |-> TRUE, is_big_block |-> FALSE,
     is_pre |-> FALSE, is_end_tag |-> FALSE, text_contents |-> <<>>]

\* _ensure_text_contents, on one ExtractNode
_ensure_text_contents(last_node) ==
    IF last_node.text_contents = <<>>
    THEN [last_node EXCEPT !.text_contents = <<"">>]
    ELSE last_node

\* text_contents.append(s) after _ensure_text_contents
AppendContents(last_node, s) ==
    [_ensure_text_contents(last_node) EXCEPT
        !.text_contents = <<@[1] \o s>>]

\* _extract_cb, the part after the node to write to is settled: what the
\* visit of DOM node `node` makes of last_node
ExtractInto(last_node, d, opts, node, is_end_tag) ==
    LET n == d[node]
        collapsed == _get_collapsed_string(n.data)
        contents == _ensure_text_contents(last_node).text_contents[1]
        element_text_sv ==
            IF contents = "" \/ isspace(Back(contents))
            THEN lstrip_str(collapsed) ELSE collapsed
        href == get_node_attr_sv(d, node, "href")
        alt == get_node_attr_sv(d, node, "alt")
        type == get_node_attr_sv(d, node, "type")
        value == IF get_node_attr_sv(d, node, "value") = ""
                 THEN get_node_attr_sv(d, node, "placeholder")
                 ELSE get_node_attr_sv(d, node, "value")
    IN IF n.type = "text"
       THEN IF last_node.is_pre /\ opts.preserve_formatting
            THEN AppendContents(last_node, n.data)
            ELSE IF element_text_sv # ""
            THEN AppendContents(last_node, element_text_sv)
            ELSE _ensure_text_contents(last_node)
       ELSE IF n.type # "element"
       THEN last_node
       ELSE IF n.local_name \in {"br", "hr"}
       THEN [_ensure_text_contents(last_node) EXCEPT !.collapse_margins = FALSE]
       ELSE IF opts.links /\ is_end_tag /\ n.local_name = "a"
       THEN IF href # ""
            THEN AppendContents(last_node, " (" \o href \o ") ")
            ELSE last_node
       ELSE IF opts.alt_texts /\ n.local_name \in {"img", "area"}
       THEN IF alt # ""
            THEN AppendContents(last_node, alt)
            ELSE _ensure_text_contents(last_node)
       ELSE IF opts.form_fields /\ n.local_name \in {"textarea", "button"}
       THEN AppendContents(last_node, IF is_end_tag THEN " ]" ELSE "[ ")
       ELSE IF opts.form_fields /\ n.local_name = "input"
       THEN IF /\ type \notin {"checkbox", "color", "file", "hidden", "radio",
                               "reset"}
               /\ value # ""
            THEN AppendContents(last_node, "[ " \o value \o " ]")
            ELSE last_node
       ELSE last_node

BigBlockTags == {"p", "h1", "h2", "h3", "h4"}

PreTags == {"pre", "textarea"}

\* _extract_cb: the extract_nodes after the visit of DOM node `node` at
\* depth `depth`
_extract_cb(extract_nodes, d, opts, node, depth, is_end_tag) ==
    LET n == d[node]
        is_block == n.type = "element" /\ is_block_element(n.local_name)
        push == \/ Len(extract_nodes) = 0
                \/ is_block
                \/ depth < extract_nodes[Len(extract_nodes)].depth
                \/ n.local_name = "textarea"
        last_node ==
            IF push
            THEN [ExtractNodeInit EXCEPT
                    !.reference_node = node,
                    !.depth = depth,
                    !.is_big_block = n.local_name \in BigBlockTags,
                    !.tag_id = n.local_name,
                    !.is_pre = ~is_end_tag /\ n.local_name \in PreTags,
                    !.is_end_tag = is_end_tag]
            ELSE extract_nodes[Len(extract_nodes)]
        written == ExtractInto(last_node, d, opts, node, is_end_tag)
    IN IF push THEN Append(extract_nodes, written)
       ELSE [extract_nodes EXCEPT ![Len(extract_nodes)] = written]


\* _indent_newlines: the loop from byte i on
RECURSIVE IndentFrom(_, _, _)
IndentFrom(element_text, indent, i) ==
    IF i >= Len(element_text) THEN ""
    ELSE At(element_text, i)
         \o (IF At(element_text, i) = "\n" THEN indent ELSE "")
         \o IndentFrom(element_text, indent, i + 1)

_indent_newlines(element_text, depth) ==
    IndentFrom(element_text, Spaces(2 * depth), 0)

\* a margin that never collapses: one newline (or space) for every node
_make_margin_uncollapsed(node, opts, bullet_deferred, output) ==
    IF opts.preserve_formatting THEN output \o "\n" ELSE output \o " "

\* _make_margin: the output after the call
_make_margin(node, opts, bullet_deferred, output) ==
    IF opts.preserve_formatting
    THEN LET first == IF \/ ~node.collapse_margins
                         \/ (output # "" /\ Back(output) # "\n")
                      THEN output \o "\n" ELSE output
         IN IF /\ node.is_big_block
               /\ ~bullet_deferred
               /\ Len(first) >= 2
               /\ At(first, Len(first) - 2) # "\n"
            THEN first \o "\n" ELSE first
    ELSE IF output # "" /\ Back(output) # " "
    THEN output \o " " ELSE output

\* the locals of _serialize_extract_nodes before its loop.  list_depth is a
\* size_t in two's complement; popped_empty records a pop_back() on the
\* empty list_numbering, which is undefined behaviour.
SerializerInit ==
    [output |-> "", bullet_deferred |-> FALSE, list_depth |-> 0,
     list_numbering |-> <<>>, list_item_indent |-> " ",
     popped_empty |-> FALSE]

\* _serialize_extract_nodes: the list tracking at the head of its loop body
ListTracking(s, current_node, opts) ==
    LET is_list == \/ current_node.tag_id \in {"ul", "ol"}
                   \/ (current_node.tag_id = "li" /\ s.list_depth = 0)
        track == opts.preserve_formatting /\ is_list
    IN [s EXCEPT
          !.list_depth =
              IF ~track THEN @
              ELSE IF current_node.is_end_tag THEN @ - 1 ELSE @ + 1,
          !.list_numbering =
              IF ~track THEN @
              ELSE IF current_node.is_end_tag
              THEN SubSeq(@, 1, Len(@) - 1)
              ELSE Append(@, IF current_node.tag_id = "ol" THEN 1 ELSE 0),
          !.popped_empty =
              @ \/ (track /\ current_node.is_end_tag /\ s.list_numbering = <<>>),
          !.bullet_deferred =
              IF opts.preserve_formatting /\ current_node.tag_id = "li" THEN TRUE
              ELSE IF track /\ current_node.is_end_tag THEN FALSE
              ELSE @]

\* _serialize_extract_nodes: one pass of its loop, on current_node
SerializeNode(s, current_node, opts) ==
    LET skipped == ListTracking(s, current_node, opts)
        list_depth == skipped.list_depth
        numbering == skipped.list_numbering
        deferred == skipped.bullet_deferred
        margin == IF current_node.tag_id # "textarea"
                  THEN _make_margin(current_node, opts, deferred, s.output)
                  ELSE s.output
        contents == current_node.text_contents[1]
        stripped == IF ~current_node.is_pre \/ current_node.is_end_tag
                    THEN rstrip_str(contents) ELSE contents
        indented == IF current_node.is_pre /\ opts.preserve_formatting
                    THEN _indent_newlines(stripped,
                             list_depth + (IF opts.list_bullets THEN 1 ELSE 0))
                    ELSE stripped
        back == numbering[Len(numbering)]
        list_item_indent ==
            (IF opts.preserve_formatting
             THEN Spaces(2 * list_depth
                         + (IF ~deferred /\ opts.list_bullets THEN 2 ELSE 0))
             ELSE s.list_item_indent)
            \o (IF ~deferred \/ ~opts.list_bullets THEN ""
                ELSE IF back = 0 THEN LIST_BULLET \o " "
                ELSE to_string(back) \o ". ")
        cell == IF /\ opts.preserve_formatting
                   /\ current_node.tag_id \in {"td", "th"}
                   /\ margin # "" /\ Back(margin) # "\n"
                THEN "\t\t" ELSE ""
        after_margin == [skipped EXCEPT !.output = margin]
    IN IF current_node.text_contents = <<>> THEN after_margin
       ELSE IF stripped = "" THEN after_margin
       \* list_depth > 0 as a size_t; below 0 it has wrapped after a pop_back()
       \* on the empty vector, which popped_empty records
       ELSE IF list_depth > 0 /\ numbering # <<>>
       THEN [after_margin EXCEPT
               !.output = margin \o cell \o list_item_indent \o indented,
               !.bullet_deferred = FALSE,
               !.list_item_indent = list_item_indent,
               !.list_numbering =
                   IF deferred /\ opts.list_bullets /\ back # 0
                   THEN [numbering EXCEPT ![Len(numbering)] = back + 1]
                   ELSE numbering]
       ELSE [after_margin EXCEPT !.output = margin \o cell \o stripped]

\* the number the pass on current_node writes before its text (line 282),
\* 0 when it writes none
NumberWritten(s, current_node, opts) ==
    LET before == ListTracking(s, current_node, opts).list_numbering
        after == SerializeNode(s, current_node, opts).list_numbering
    IN IF before # <<>> /\ after[Len(after)] # before[Len(before)]
       THEN before[Len(before)] ELSE 0

\* _serialize_extract_nodes: the loop from node i on
RECURSIVE SerializeFrom(_, _, _, _)
SerializeFrom(s, extract_nodes, i, opts) ==
    IF i > Len(extract_nodes) THEN s
    ELSE SerializeFrom(SerializeNode(s, extract_nodes[i], opts),
                       extract_nodes, i + 1, opts)

_serialize_extract_nodes(extract_nodes, opts) ==
    SerializeFrom(SerializerInit, extract_nodes, 1, opts).output


(***************************************************************************)
(* CSS selectors (lexbor), for the three kinds of simple selector the      *)
(* extractor and the modelled callers use: .class, [role="main"], tag.     *)
(***************************************************************************)
\* the maximal runs of non-white-space bytes of s from byte i on; cur is
\* the run being read
RECURSIVE TokensFrom(_, _, _)
TokensFrom(s, i, cur) ==
    IF i >= Len(s) THEN (IF cur = "" THEN <<>> ELSE <<cur>>)
    ELSE IF isspace(At(s, i))
    THEN (IF cur = "" THEN <<>> ELSE <<cur>>) \o TokensFrom(s, i + 1, "")
    ELSE TokensFrom(s, i + 1, cur \o At(s, i))

Tokens(s) == TokensFrom(s, 0, "")

SelectorMatches(d, node, sel) ==
    /\ d[node].type = "element"
    /\ IF At(sel, 0) = "."
       THEN \E i \in DOMAIN Tokens(get_node_attr_sv(d, node, "class")) :
                Tokens(get_node_attr_sv(d, node, "class"))[i]
                    = SubSeq(sel, 2, Len(sel))
       ELSE IF sel = "[role=\"main\"]"
       THEN get_node_attr_sv(d, node, "role") = "main"
       ELSE d[node].local_name = sel

\* lxb_selectors_find with _collect_selected_nodes_cb: the nodes below
\* root_node that one selector of the list matches
lxb_selectors_find(d, root_node, selector_list) ==
    {node \in Descendants(d, root_node) :
        \E sel \in selector_list : SelectorMatches(d, node, sel)}

main_content_selector ==
    {".article-body", ".articleBody", ".contentBody", ".article-text",
     ".main-content", ".postcontent", ".post-content", ".single-post",
     "[role=\"main\"]"}

(***************************************************************************)
(* _is_main_content_node.  The regular expressions are tabled on the class *)
(* attributes of the modelled documents: RegexMatches[r] holds the strings *)
(* among them in which RE2 finds a match of r.                             *)
(***************************************************************************)
ClassVocabulary ==
    {"x", "article-body", "site-footer", "main-nav", "sidebar", "comments",
     "post-meta", "share", "login", "hidden", "logo", "ad", "search",
     "modal", "related-posts", "skip-link", "page-header", "post-content",
     "article-body sidebar", "article-body share", "article-body hidden",
     "article-body page-header", "article-body site-footer",
     "article-body main-nav", "article-body related-posts",
     "article-body comments", "article-body search", "article-body modal"}

WithSpace(S) == S \cup {s \o " " : s \in S}

RegexMatches ==
    [article_cls_regex |->
         WithSpace({"article-body", "main-nav", "post-meta", "post-content",
                    "article-body sidebar", "article-body share",
                    "article-body hidden", "article-body page-header",
                    "article-body site-footer", "article-body main-nav",
                    "article-body related-posts", "article-body comments",
                    "article-body search", "article-body modal"}),
     nav_cls_regex |-> WithSpace({"main-nav", "article-body main-nav"}),
     recommended_cls_regex |->
         WithSpace({"related-posts", "article-body related-posts"}),
     header_cls_regex |-> WithSpace({"page-header", "article-body page-header"}),
     footer_cls_regex |-> WithSpace({"site-footer", "article-body site-footer"}),
     post_meta_cls_regex |-> WithSpace({"post-meta"}),
     sidebar_cls_regex |-> WithSpace({"sidebar", "article-body sidebar"}),
     search_cls_regex |-> WithSpace({"search", "article-body search"}),
     skip_link_cls_regex |-> WithSpace({"skip-link"}),
     display_cls_regex |-> WithSpace({"hidden", "article-body hidden"}),
     display_css_regex |-> {"display:none"},
     modal_cls_regex |-> WithSpace({"modal", "article-body modal"}),
     signin_cls_regex |-> WithSpace({"login"}),
     ads_cls_regex |-> {"ad"},
     social_cls_regex |-> WithSpace({"share", "article-body share"}),
     comments_cls_regex |-> WithSpace({"comments", "article-body comments"}),
     logo_cls_regex |-> WithSpace({"logo"})]

regex_search_not_empty(s, r) == s # "" /\ s \in RegexMatches[r]

\* a code point of the private use area (3 bytes) and the pilcrow (2 bytes),
\* each written as one stand-in character
PuaChar == "~"
Pilcrow == "|"

\* std::string::size() of a string with stand-in characters
RECURSIVE ByteSize(_)
ByteSize(s) ==
    IF s = "" THEN 0
    ELSE (IF At(s, 0) \in {PuaChar, LIST_BULLET} THEN 3
          ELSE IF At(s, 0) = Pilcrow THEN 2 ELSE 1)
         + ByteSize(SubSeq(s, 2, Len(s)))

_is_unprintable_pua(d, node) ==
    LET fc == first_child(d, node)
        element_text == string_util_strip_str(get_node_text(d, node))
    IN IF fc # 0 /\ (next(d, fc) # 0 \/ d[fc].type # "text") THEN FALSE
       ELSE IF fc = 0 /\ d[node].type # "text" THEN FALSE
       ELSE IF ByteSize(element_text) > 3 THEN FALSE
       \* the packed three bytes are compared as a little-endian number, which
       \* the bytes E2 80 A2 of the bullet pass as well
       ELSE element_text \in {Pilcrow, PuaChar, LIST_BULLET}

\* the count of the loop `while pnode.local_name != BODY and pnode.parent`
RECURSIVE LengthToBody(_, _)
LengthToBody(d, pnode) ==
    IF d[pnode].local_name # "body" /\ parent(d, pnode) # 0
    THEN 1 + LengthToBody(d, parent(d, pnode))
    ELSE 0

\* footer_is_last_body_child after the loop that climbs from the footer
RECURSIVE FooterIsLastBodyChild(_, _)
FooterIsLastBodyChild(d, pnode) ==
    IF pnode # 0 /\ parent(d, pnode) # 0
       /\ d[parent(d, pnode)].local_name # "body"
    THEN LET after == IF next(d, pnode) # 0 /\ d[next(d, pnode)].type = "text"
                      THEN next(d, pnode) ELSE pnode
         IN IF next(d, after) # 0 THEN FALSE
            ELSE FooterIsLastBodyChild(d, parent(d, after))
    ELSE TRUE

GlobalDepth == 8
FooterDepth == 3
MetaDepth == 2

\* the rejecting rules of Section 3 consulted before its whitelist: an
\* article element is accepted only if no rule of the section rejects it
BlockClassRulesRejectFirst(cls_and_id_attr, allow_comments) ==
    IF \E r \in {"header_cls_regex", "footer_cls_regex", "nav_cls_regex",
                 "recommended_cls_regex", "search_cls_regex",
                 "sidebar_cls_regex", "modal_cls_regex"} :
           regex_search_not_empty(cls_and_id_attr, r) THEN FALSE
    ELSE IF /\ ~allow_comments
            /\ regex_search_not_empty(cls_and_id_attr, "comments_cls_regex")
         THEN FALSE
    ELSE TRUE

\* _is_main_content_node, Section 3: class and id matching of block
\* elements only
BlockClassRules(cls_and_id_attr, allow_comments) ==
    IF regex_search_not_empty(cls_and_id_attr, "article_cls_regex") THEN TRUE
    ELSE IF \E r \in {"header_cls_regex", "footer_cls_regex",
                      "nav_cls_regex", "recommended_cls_regex"} :
                regex_search_not_empty(cls_and_id_attr, r) THEN FALSE
    ELSE IF /\ ~allow_comments
            /\ regex_search_not_empty(cls_and_id_attr, "comments_cls_regex")
         THEN FALSE
    ELSE IF \E r \in {"search_cls_regex", "sidebar_cls_regex",
                      "modal_cls_regex"} :
                regex_search_not_empty(cls_and_id_attr, r) THEN FALSE
    ELSE TRUE

_is_main_content_node(d, node, allow_comments) ==
    LET n == d[node]
        is_block == is_block_element(n.local_name)
        rel_attr == get_node_attr_sv(d, node, "rel")
        itemprop_attr == get_node_attr_sv(d, node, "itemprop")
        role_attr == get_node_attr_sv(d, node, "role")
        length_to_body == IF is_block \/ n.local_name = "a"
                          THEN LengthToBody(d, node) ELSE 0
        cls_attr == get_node_attr_sv(d, node, "class")
        id_attr == get_node_attr_sv(d, node, "id")
        cls_and_id_attr ==
            (IF cls_attr # "" THEN cls_attr \o " " ELSE "") \o id_attr
    IN IF n.type # "element" THEN TRUE
       ELSE IF n.local_name = "body" THEN TRUE
       \* Section 1: inline and block elements
       ELSE IF ~is_block /\ _is_unprintable_pua(d, node) THEN FALSE
       ELSE IF lxb_dom_element_has_attribute(d, node, "hidden") THEN FALSE
       ELSE IF rel_attr \in {"bookmark", "author", "icon", "search", "prev",
                             "next"} THEN FALSE
       ELSE IF itemprop_attr \in {"datePublished", "author", "url"} THEN FALSE
       ELSE IF get_node_attr_sv(d, node, "aria-hidden") = "true" THEN FALSE
       ELSE IF get_node_attr_sv(d, node, "aria-expanded") = "false" THEN FALSE
       ELSE IF role_attr \in {"contentinfo", "img", "menu", "menubar",
                              "navigation", "menuitem", "alert", "dialog",
                              "checkbox", "radio", "complementary"} THEN FALSE
       ELSE IF is_block /\ n.local_name = "main" THEN TRUE
       ELSE IF is_block /\ n.local_name = "footer"
               /\ (length_to_body < FooterDepth
                   \/ FooterIsLastBodyChild(d, node)) THEN FALSE
       ELSE IF is_block /\ n.local_name \in {"ul", "nav"}
               /\ length_to_body < GlobalDepth THEN FALSE
       ELSE IF is_block /\ n.local_name = "aside"
               /\ length_to_body < GlobalDepth THEN FALSE
       ELSE IF is_block /\ n.local_name = "iframe" THEN FALSE
       \* Section 2: general class and id matching
       ELSE IF cls_attr = "" /\ id_attr = "" THEN TRUE
       ELSE IF \/ regex_search_not_empty(cls_attr, "display_cls_regex")
               \/ regex_search_not_empty(get_node_attr_sv(d, node, "style"),
                                         "display_css_regex") THEN FALSE
       ELSE IF /\ n.local_name \in {"a", "div", "li"}
               /\ regex_search_not_empty(cls_and_id_attr, "skip_link_cls_regex")
            THEN FALSE
       ELSE IF /\ length_to_body > MetaDepth
               /\ \/ regex_search_not_empty(cls_attr, "signin_cls_regex")
                  \/ regex_search_not_empty(cls_attr, "post_meta_cls_regex")
                  \/ regex_search_not_empty(cls_attr, "social_cls_regex")
            THEN FALSE
       ELSE IF regex_search_not_empty(cls_and_id_attr, "logo_cls_regex")
            THEN FALSE
       ELSE IF \/ regex_search_not_empty(cls_and_id_attr, "ads_cls_regex")
               \/ lxb_dom_element_has_attribute(d, node, "data-ad")
               \/ lxb_dom_element_has_attribute(d, node, "data-advertisement")
               \/ lxb_dom_element_has_attribute(d, node, "data-text-ad")
            THEN FALSE
       \* Section 3: class and id matching of block elements only
       ELSE IF ~is_block THEN TRUE
       ELSE BlockClassRules(cls_and_id_attr, allow_comments)


(***************************************************************************)
(* extract_plain_text.  args is the record of its arguments; base_node is  *)
(* a node of the DOM d.                                                    *)
(***************************************************************************)
ArgsDefault ==
    [base_node |-> 1, preserve_formatting |-> TRUE, main_content |-> FALSE,
     list_bullets |-> TRUE, alt_texts |-> TRUE, links |-> FALSE,
     form_fields |-> FALSE, noscript |-> FALSE, comments |-> TRUE,
     skip_elements |-> {}]

\* ctx.opts
OptsOf(args) ==
    [preserve_formatting |-> args.preserve_formatting,
     list_bullets |-> args.list_bullets, links |-> args.links,
     alt_texts |-> args.alt_texts, form_fields |-> args.form_fields,
     noscript |-> args.noscript]

skip_selectors(args) ==
    args.skip_elements
    \cup {"script", "style"}
    \cup (IF ~args.alt_texts
          THEN {"object", "video", "audio", "embedimg", "area", "svg",
                "figcaption", "figure"}
          ELSE {})
    \cup (IF ~args.noscript THEN {"noscript"} ELSE {})
    \cup (IF ~args.form_fields
          THEN {"textarea", "input", "button", "select", "option", "label"}
          ELSE {})

\* ctx.root_node before the pre-selection
BaseRoot(d, args) ==
    IF d[args.base_node].type = "document"
    THEN next_element_node(d, first_child(d, args.base_node))
    ELSE args.base_node

\* a pre-selection that takes the first match in document order whenever
\* there is one, also when there are several
RootNodeFirstMatch(d, args) ==
    LET found == lxb_selectors_find(d, BaseRoot(d, args), main_content_selector)
    IN IF found # {} THEN CHOOSE node \in found : \A other \in found : node <= other
       ELSE BaseRoot(d, args)

\* ctx.root_node after the pre-selection of the main content zone
RootNode(d, args) ==
    LET found == lxb_selectors_find(d, BaseRoot(d, args), main_content_selector)
    IN IF Cardinality(found) = 1 THEN CHOOSE node \in found : TRUE
       ELSE BaseRoot(d, args)

\* preselected_nodes after the skip query
SkipNodes(d, args) ==
    lxb_selectors_find(d, RootNode(d, args), skip_selectors(args))

\* the three tests of the walk loop that pass over a node
IsOtherNode(d, node) == d[node].type \notin {"element", "text"}

IsHead(d, node) == d[node].local_name = "head"

IsBlacklisted(d, args, preselected, node) ==
    \/ node \in preselected
    \/ (args.main_content /\ ~_is_main_content_node(d, node, args.comments))

\* a walk loop that forgets `is_end_tag = True` before it steps over a node:
\* it passes the node's own visits and then descends into its children
WalkStepDescending(d, args, root_node, preselected, w) ==
    LET nx == next_node(d, root_node, w.node, w.depth, w.is_end_tag)
    IN [node |-> nx.node, depth |-> nx.depth, is_end_tag |-> nx.end_tag,
        extract_nodes |->
            IF \/ IsOtherNode(d, w.node)
               \/ IsHead(d, w.node)
               \/ IsBlacklisted(d, args, preselected, w.node)
            THEN w.extract_nodes
            ELSE _extract_cb(w.extract_nodes, d, OptsOf(args), w.node,
                             w.depth, w.is_end_tag)]

\* one pass of the walk loop; w holds ctx.node, ctx.depth, is_end_tag and
\* extract_nodes
WalkStep(d, args, root_node, preselected, w) ==
    IF \/ IsOtherNode(d, w.node)
       \/ IsHead(d, w.node)
       \/ IsBlacklisted(d, args, preselected, w.node)
    THEN LET nx == next_node(d, root_node, w.node, w.depth, TRUE)
         IN [node |-> nx.node, depth |-> nx.depth, is_end_tag |-> nx.end_tag,
             extract_nodes |-> w.extract_nodes]
    ELSE LET nx == next_node(d, root_node, w.node, w.depth, w.is_end_tag)
         IN [node |-> nx.node, depth |-> nx.depth, is_end_tag |-> nx.end_tag,
             extract_nodes |->
                 _extract_cb(w.extract_nodes, d, OptsOf(args), w.node,
                             w.depth, w.is_end_tag)]

RECURSIVE WalkFrom(_, _, _, _, _)
WalkFrom(d, args, root_node, preselected, w) ==
    IF w.node = 0 THEN w.extract_nodes
    ELSE WalkFrom(d, args, root_node, preselected,
                  WalkStep(d, args, root_node, preselected, w))

\* resiliparse.parse.encoding.bytes_to_str: every byte of the modelled
\* documents is ASCII (or a stand-in) and decodes to itself
bytes_to_str(s) == s

\* str.rstrip()
rstrip(s) == rstrip_str(s)

extract_plain_text(d, args) ==
    LET root_node == RootNode(d, args)
        extract_nodes ==
            WalkFrom(d, args, root_node, SkipNodes(d, args),
                     [node |-> root_node, depth |-> 0, is_end_tag |-> FALSE,
                      extract_nodes |-> <<>>])
    IN rstrip(bytes_to_str(_serialize_extract_nodes(extract_nodes, OptsOf(args))))


(***************************************************************************)
(* Documents.  The children of <body> stand at depth 3.                    *)
(***************************************************************************)
RECURSIVE Flatten(_)
Flatten(ss) == IF Len(ss) = 0 THEN <<>> ELSE Head(ss) \o Flatten(Tail(ss))

\* the HTML parser leaves no two text nodes side by side: it joins them
RECURSIVE JoinTexts(_)
JoinTexts(d) ==
    IF Len(d) < 2 THEN d
    ELSE IF d[1].type = "text" /\ d[2].type = "text" /\ d[1].depth = d[2].depth
    THEN JoinTexts(<<Text(d[1].depth, d[1].data \o d[2].data)>>
                   \o SubSeq(d, 3, Len(d)))
    ELSE <<d[1]>> \o JoinTexts(Tail(d))

BodyAt == <<Document, Element("html", 1, NoAttrs), Element("body", 2, NoAttrs)>>

PageAt ==
    <<Document, Element("html", 1, NoAttrs), Element("head", 2, NoAttrs),
      Element("title", 3, NoAttrs), Text(4, "T"),
      Element("body", 2, NoAttrs)>>

\* family "flow": text, breaks, blocks, <pre> and attribute texts
FlowFrags ==
    {<<Text(3, "a")>>,
     <<Text(3, " b\n c ")>>,
     <<Element("br", 3, NoAttrs)>>,
     <<Element("hr", 3, NoAttrs), Text(3, "d")>>,
     <<Element("p", 3, NoAttrs), Text(4, "e")>>,
     <<Element("p", 3, NoAttrs)>>,
     <<Element("pre", 3, NoAttrs), Text(4, "x\n\n\ty\n")>>,
     <<Element("pre", 3, NoAttrs), Element("div", 4, NoAttrs),
       Text(5, "t\tu")>>,
     <<Element("img", 3, [alt |-> "i  j"])>>,
     <<Element("a", 3, [href |-> "h"]), Text(4, "k")>>,
     <<Element("input", 3, [value |-> "v"])>>,
     <<Comment(3, "n")>>}

FlowDoms ==
    {JoinTexts(BodyAt \o Flatten(fs)) : fs \in UNION {[1..n -> FlowFrags] : n \in 0..MaxFrags}}

FlowArgs ==
    {[ArgsDefault EXCEPT !.preserve_formatting = pf, !.links = on,
                         !.form_fields = on] : pf \in BOOLEAN, on \in BOOLEAN}

\* family "list": one <ol> or <ul> with items, stray text and nested lists,
\* one of them empty; under a <div> the items are stray <li>
ListItems ==
    {<<Element("li", 4, NoAttrs), Text(5, "a")>>,
     <<Element("li", 4, NoAttrs)>>,
     <<Text(4, "s")>>,
     <<Element("li", 4, NoAttrs), Text(5, "n"), Element("ol", 5, NoAttrs),
       Element("li", 6, NoAttrs), Text(7, "u")>>,
     <<Element("li", 4, NoAttrs), Text(5, "e"), Element("ol", 5, NoAttrs)>>,
     <<Element("li", 4, [class |-> "x"]), Text(5, "z")>>}

ListDoms ==
    {JoinTexts(BodyAt \o <<Element(tag, 3, NoAttrs)>> \o Flatten(is)) :
        tag \in {"ol", "ul", "div"},
        is \in UNION {[1..n -> ListItems] : n \in 0..MaxItems}}

ListArgs ==
    {[ArgsDefault EXCEPT !.preserve_formatting = o[1], !.list_bullets = o[2],
                         !.skip_elements = sk] :
        o \in {<<TRUE, TRUE>>, <<TRUE, FALSE>>, <<FALSE, TRUE>>},
        sk \in {{}, {".x"}}}

\* family "page": a document with <head>, candidates of the main content
\* pre-selection, page furniture and elements a caller's selector names
PageParts ==
    {<<Element("div", 3, [class |-> "article-body"]), Text(4, "g")>>,
     <<Element("div", 3, [class |-> "site-footer"]), Text(4, "f")>>,
     <<Element("div", 3, [class |-> "x"]), Text(4, "m")>>,
     <<Text(3, "q"), Element("span", 3, [class |-> "x"]), Text(4, " "),
       Text(3, "r")>>,
     <<Text(3, "w")>>,
     <<Element("script", 3, NoAttrs), Text(4, "s")>>}

PageDoms ==
    {JoinTexts(PageAt \o Flatten(ps)) : ps \in UNION {[1..n -> PageParts] : n \in 0..MaxParts}}

\* the <body> of a page
BodyOfPage == Len(PageAt)

PageArgs ==
    {[ArgsDefault EXCEPT !.base_node = b, !.main_content = mc,
                         !.skip_elements = sk] :
        b \in {1, BodyOfPage}, mc \in BOOLEAN, sk \in {{}, {".x"}}}

ExtractInputs ==
    {[family |-> "flow", dom |-> d, args |-> a] : d \in FlowDoms, a \in FlowArgs}
    \cup {[family |-> "list", dom |-> d, args |-> a] :
              d \in ListDoms, a \in ListArgs}
    \cup {[family |-> "page", dom |-> d, args |-> a] :
              d \in PageDoms, a \in PageArgs}


(***************************************************************************)
(* One call of extract_plain_text as a state machine.                      *)
(*   xin      the document and the arguments of the call                   *)
(*   xpc      where the call is: "start", "walk" (the loop over the DOM),   *)
(*            "serialize" (the loop of _serialize_extract_nodes), "done"   *)
(*   xroot    ctx.root_node after the pre-selection                        *)
(*   xskip    preselected_nodes after the skip query                       *)
(*   walk     ctx.node, ctx.depth, is_end_tag and extract_nodes            *)
(*   ser      the locals of _serialize_extract_nodes, ser_i its loop index *)
(*   result   the returned string                                          *)
(*   visits   history: the (node, is_end_tag) pairs handed to _extract_cb  *)
(*   numbered history: the numbers written before list items, each with    *)
(*            the list depth and the extract node it was written for       *)
(***************************************************************************)
WarcIdle ==
    /\ input = [family |-> "none", parts |-> <<>>, tail |-> ""]
    /\ stream = ""
    /\ pos = 0
    /\ pc = "none"
    /\ headers = <<>>
    /\ has_status_line = FALSE
    /\ bytes_consumed = 0
    /\ record = WarcRecordInit
    /\ http_header_bytes = 0
    /\ rec_start = 0
    /\ http_start = 0
    /\ body_start = 0
    /\ outcomes = <<>>
    /\ yielded = <<>>

InitExtract ==
    /\ xin \in ExtractInputs
    /\ xpc = "start"
    /\ xroot = 0
    /\ xskip = {}
    /\ walk = [node |-> 0, depth |-> 0, is_end_tag |-> FALSE,
               extract_nodes |-> <<>>]
    /\ ser = SerializerInit
    /\ ser_i = 1
    /\ result = ""
    /\ visits = <<>>
    /\ numbered = <<>>
    /\ WarcIdle
    /\ StripIdle
    /\ ClassifyIdle

\* extract_plain_text up to the walk: the root, the pre-selection and the
\* skip query
Preselect ==
    /\ xpc = "start"
    /\ xroot' = RootNode(xin.dom, xin.args)
    /\ xskip' = SkipNodes(xin.dom, xin.args)
    /\ walk' = [walk EXCEPT !.node = RootNode(xin.dom, xin.args)]
    /\ xpc' = "walk"
    /\ UNCHANGED <<xin, ser, ser_i, result, visits, numbered>>
    /\ UNCHANGED <<wvars, svars, cvars>>

\* the walk loop on a node that is neither an element nor a text
SkipOtherNode ==
    /\ xpc = "walk"
    /\ walk.node # 0
    /\ IsOtherNode(xin.dom, walk.node)
    /\ walk' = WalkStep(xin.dom, xin.args, xroot, xskip, walk)
    /\ UNCHANGED <<xin, xpc, xroot, xskip, ser, ser_i, result, visits,
                   numbered>>
    /\ UNCHANGED <<wvars, svars, cvars>>

\* the walk loop on <head>
SkipHead ==
    /\ xpc = "walk"
    /\ walk.node # 0
    /\ ~IsOtherNode(xin.dom, walk.node)
    /\ IsHead(xin.dom, walk.node)
    /\ walk' = WalkStep(xin.dom, xin.args, xroot, xskip, walk)
    /\ UNCHANGED <<xin, xpc, xroot, xskip, ser, ser_i, result, visits,
                   numbered>>
    /\ UNCHANGED <<wvars, svars, cvars>>

\* the walk loop on a node of the skip query or one the classifier rejects
SkipBlacklisted ==
    /\ xpc = "walk"
    /\ walk.node # 0
    /\ ~IsOtherNode(xin.dom, walk.node)
    /\ ~IsHead(xin.dom, walk.node)
    /\ IsBlacklisted(xin.dom, xin.args, xskip, walk.node)
    /\ walk' = WalkStep(xin.dom, xin.args, xroot, xskip, walk)
    /\ UNCHANGED <<xin, xpc, xroot, xskip, ser, ser_i, result, visits,
                   numbered>>
    /\ UNCHANGED <<wvars, svars, cvars>>

\* the walk loop on any other node: _extract_cb, then next_node
Visit ==
    /\ xpc = "walk"
    /\ walk.node # 0
    /\ ~IsOtherNode(xin.dom, walk.node)
    /\ ~IsHead(xin.dom, walk.node)
    /\ ~IsBlacklisted(xin.dom, xin.args, xskip, walk.node)
    /\ walk' = WalkStep(xin.dom, xin.args, xroot, xskip, walk)
    /\ visits' = Append(visits, <<walk.node, walk.is_end_tag>>)
    /\ UNCHANGED <<xin, xpc, xroot, xskip, ser, ser_i, result, numbered>>
    /\ UNCHANGED <<wvars, svars, cvars>>

\* the walk loop ends on the NULL node; _serialize_extract_nodes is entered
EndWalk ==
    /\ xpc = "walk"
    /\ walk.node = 0
    /\ xpc' = "serialize"
    /\ UNCHANGED <<xin, xroot, xskip, walk, ser, ser_i, result, visits,
                   numbered>>
    /\ UNCHANGED <<wvars, svars, cvars>>

\* _serialize_extract_nodes: one pass of its loop
SerializeStep ==
    /\ xpc = "serialize"
    /\ ser_i <= Len(walk.extract_nodes)
    /\ ser' = SerializeNode(ser, walk.extract_nodes[ser_i], OptsOf(xin.args))
    /\ ser_i' = ser_i + 1
    /\ numbered' =
         IF NumberWritten(ser, walk.extract_nodes[ser_i], OptsOf(xin.args)) # 0
         THEN Append(numbered,
                  [n |-> NumberWritten(ser, walk.extract_nodes[ser_i],
                                       OptsOf(xin.args)),
                   list_depth |-> ser'.list_depth,
                   extract_node |-> walk.extract_nodes[ser_i]])
         ELSE numbered
    /\ UNCHANGED <<xin, xpc, xroot, xskip, walk, result, visits>>
    /\ UNCHANGED <<wvars, svars, cvars>>

\* a return that hands back the serializer's output as it is, without the
\* final rstrip()
ReturnUnstripped ==
    /\ xpc = "serialize"
    /\ ser_i > Len(walk.extract_nodes)
    /\ result' = bytes_to_str(ser.output)
    /\ xpc' = "done"
    /\ UNCHANGED <<xin, xroot, xskip, walk, ser, ser_i, visits, numbered>>
    /\ UNCHANGED <<wvars, svars, cvars>>

\* the return of extract_plain_text
Return ==
    /\ xpc = "serialize"
    /\ ser_i > Len(walk.extract_nodes)
    /\ result' = rstrip(bytes_to_str(ser.output))
    /\ xpc' = "done"
    /\ UNCHANGED <<xin, xroot, xskip, walk, ser, ser_i, visits, numbered>>
    /\ UNCHANGED <<wvars, svars, cvars>>

NextExtract ==
    \/ Preselect
    \/ SkipOtherNode
    \/ SkipHead
    \/ SkipBlacklisted
    \/ Visit
    \/ EndWalk
    \/ SerializeStep
    \/ Return

SpecExtract == InitExtract /\ [][NextExtract]_vars


(***************************************************************************)
(* Vocabulary of the properties of the extractor.                          *)
(***************************************************************************)
Opts == OptsOf(xin.args)

Serializing == xpc \in {"serialize", "done"}

Done == xpc = "done"

\* s holds the bytes of needle somewhere
Contains(s, needle) == FindFrom(s, needle, 0) # strnpos

(***************************************************************************)
(* C14: with preserve_formatting the serializer's output never holds three *)
(* newline bytes in a row, whatever extract nodes it is given.             *)
(***************************************************************************)
C14_NoThreeNewlines ==
    (Serializing /\ Opts.preserve_formatting)
        => ~Contains(ser.output, "\n\n\n")


(***************************************************************************)
(* C15: without preserve_formatting the returned text holds no newline and *)
(* each of its white-space bytes is a space with no white space after it.  *)
(***************************************************************************)
SingleSpaced(s) ==
    \A i \in 0..(Len(s) - 1) :
        isspace(At(s, i))
            => (At(s, i) = " " /\ (i + 1 < Len(s) => ~isspace(At(s, i + 1))))

C15_CollapsedOutputIsSingleSpaced ==
    (Done /\ ~Opts.preserve_formatting)
        => (~Contains(result, "\n") /\ SingleSpaced(result))


(***************************************************************************)
(* C16: with preserve_formatting and list_bullets, the numbers written for *)
(* the items of an <ol> are 1, 2, ..., N in document order, N being the    *)
(* count of its direct <li> children that are not skipped, and each number *)
(* is written for the open <li> of its item.  Checked on the outer list of *)
(* the "list" documents, which is node ListAt.                             *)
(***************************************************************************)
ListAt == Len(BodyAt) + 1

\* the <li> nodes among child c and its following siblings that the skip
\* query leaves, in document order
RECURSIVE ItemsFrom(_, _, _)
ItemsFrom(d, c, skip) ==
    IF c = 0 THEN <<>>
    ELSE (IF d[c].local_name = "li" /\ c \notin skip THEN <<c>> ELSE <<>>)
         \o ItemsFrom(d, next(d, c), skip)

\* the direct <li> children of the outer list that survive
SurvivingItems == ItemsFrom(xin.dom, first_child(xin.dom, ListAt), xskip)

\* the numbers written at list depth 1
OuterNumbers ==
    LET AtOuter(e) == e.list_depth = 1
    IN SelectSeq(numbered, AtOuter)

NumberedList ==
    /\ Done
    /\ xin.family = "list"
    /\ xin.dom[ListAt].local_name = "ol"
    /\ Opts.preserve_formatting
    /\ Opts.list_bullets

C16_OlNumbersAreOneToN ==
    NumberedList
        => /\ Len(OuterNumbers) = Len(SurvivingItems)
           /\ \A k \in 1..Len(OuterNumbers) :
                  /\ OuterNumbers[k].n = k
                  /\ OuterNumbers[k].extract_node.reference_node
                         = SurvivingItems[k]
                  /\ ~OuterNumbers[k].extract_node.is_end_tag


(***************************************************************************)
(* C17: adding the selector .x to skip_elements never brings a new token   *)
(* into the output: the tokens (maximal runs of bytes that are no white    *)
(* space) of the output with the selector are a sub-sequence of the tokens *)
(* of the output without it.                                               *)
(***************************************************************************)
\* a is b with some entries left out
RECURSIVE IsSubSequence(_, _)
IsSubSequence(a, b) ==
    IF Len(a) = 0 THEN TRUE
    ELSE IF Len(b) = 0 THEN FALSE
    ELSE IF Head(a) = Head(b) THEN IsSubSequence(Tail(a), Tail(b))
    ELSE IsSubSequence(a, Tail(b))

AddedSelector == ".x"

\* the output of the same call with AddedSelector among its skip_elements
ResultWithAddedSelector ==
    extract_plain_text(xin.dom,
        [xin.args EXCEPT !.skip_elements = @ \cup {AddedSelector}])

C17_AddedSelectorOnlyShrinksOutput ==
    (Done /\ AddedSelector \notin xin.args.skip_elements)
        => IsSubSequence(Tokens(ResultWithAddedSelector), Tokens(result))


(***************************************************************************)
(* C18: with main_content = false the output holds all visible text below  *)
(* base_node: every token of every text node below base_node that is not   *)
(* inside <head> nor inside an element the skip selectors match occurs in  *)
(* the returned string.                                                    *)
(***************************************************************************)
\* node and the elements it is nested in
RECURSIVE AncestorsOrSelf(_, _)
AncestorsOrSelf(d, node) ==
    IF node = 0 THEN {} ELSE {node} \cup AncestorsOrSelf(d, parent(d, node))

InsideHeadOrSkipped(d, args, node) ==
    \E a \in AncestorsOrSelf(d, node) :
        \/ IsHead(d, a)
        \/ \E sel \in skip_selectors(args) : SelectorMatches(d, a, sel)

VisibleTextNodes ==
    {node \in Descendants(xin.dom, xin.args.base_node) :
        /\ xin.dom[node].type = "text"
        /\ ~InsideHeadOrSkipped(xin.dom, xin.args, node)}

C18_AllVisibleTextExtracted ==
    (Done /\ ~xin.args.main_content)
        => \A node \in VisibleTextNodes :
               \A k \in DOMAIN Tokens(xin.dom[node].data) :
                   Contains(result, Tokens(xin.dom[node].data)[k])


(***************************************************************************)
(* C19: the walk never hands to _extract_cb a node that lies in a subtree  *)
(* it has to pass over: below the root of the walk, no visited node and no *)
(* reference node of an ExtractNode is, or is nested in, a <head>, a node  *)
(* of the skip query or (with main_content) a node the classifier rejects; *)
(* neither the open nor the close visit of such a node is made.            *)
(***************************************************************************)
\* the nodes of the walk: the root and what is below it
WalkNodes == IF xroot = 0 THEN {} ELSE {xroot} \cup Descendants(xin.dom, xroot)

PassedOver(node) ==
    \/ IsHead(xin.dom, node)
    \/ IsBlacklisted(xin.dom, xin.args, xskip, node)

InPassedOverSubtree(node) ==
    \E a \in AncestorsOrSelf(xin.dom, node) \cap WalkNodes : PassedOver(a)

C19_PassedOverSubtreesNeverVisited ==
    /\ \A k \in DOMAIN visits : ~InPassedOverSubtree(visits[k][1])
    /\ \A k \in DOMAIN walk.extract_nodes :
           ~InPassedOverSubtree(walk.extract_nodes[k].reference_node)

\* a finished walk over a document with a <head>, a node of the skip query
\* with text in it and a node the classifier rejects, some node visited
C19_Witness ==
    /\ Done
    /\ xin.args.main_content
    /\ Len(visits) > 0
    /\ \E h \in WalkNodes : IsHead(xin.dom, h) /\ Descendants(xin.dom, h) # {}
    /\ \E s \in xskip : \E t \in Descendants(xin.dom, s) : xin.dom[t].type = "text"
    /\ \E r \in WalkNodes \ xskip :
           /\ ~_is_main_content_node(xin.dom, r, xin.args.comments)
           /\ Descendants(xin.dom, r) # {}


(***************************************************************************)
(* C20: the text of a <pre> or <textarea> subtree keeps its bytes.  With   *)
(* preserve_formatting the data of every text node nested at any depth in  *)
(* a <pre> or <textarea> stands in the returned string with its tabs and   *)
(* newlines unchanged (white space at its two ends set aside, as the       *)
(* string is stripped on return); without preserve_formatting the same     *)
(* data stands there collapsed to single spaces.                           *)
(***************************************************************************)
InsidePre(d, node) ==
    \E a \in AncestorsOrSelf(d, node) : d[a].local_name \in PreTags

PreTextNodes ==
    {node \in DOMAIN xin.dom :
        /\ xin.dom[node].type = "text"
        /\ InsidePre(xin.dom, node)
        /\ ~InsideHeadOrSkipped(xin.dom, xin.args, node)}

C20_PreTextKeepsItsBytes ==
    Done => \A node \in PreTextNodes :
                IF Opts.preserve_formatting
                THEN Contains(result, string_util_strip_str(xin.dom[node].data))
                ELSE Contains(result, string_util_strip_str(
                         _get_collapsed_string(xin.dom[node].data)))


(***************************************************************************)
(* C21: the string extract_plain_text returns never ends with a white      *)
(* space character, whatever the document and the options.                 *)
(***************************************************************************)
EndsWithSpace(s) == Len(s) > 0 /\ isspace(At(s, Len(s) - 1))

C21_NoTrailingWhitespace == Done => ~EndsWithSpace(result)

\* a call returned text although its serializer output ended in white space
C21_Witness == Done /\ EndsWithSpace(ser.output) /\ result # ""


(***************************************************************************)
(* C22: list numbering is kept per list.  The numbers written for the      *)
(* items of one <ol> are 1, 2, 3, ... in the order they are written,       *)
(* whatever was numbered in enclosing, nested or earlier lists in between: *)
(* each <ol> starts at 1, and after a nested list has closed the enclosing *)
(* <ol> goes on with the number it had reached.                            *)
(***************************************************************************)
\* the <ol> or <ul> a node is nested in most closely, 0 if there is none
RECURSIVE ListOf(_, _)
ListOf(d, node) ==
    LET p == parent(d, node)
    IN IF p = 0 THEN 0
       ELSE IF d[p].local_name \in {"ol", "ul"} THEN p
       ELSE ListOf(d, p)

\* the list the k-th written number belongs to
ListOfNumber(k) == ListOf(xin.dom, numbered[k].extract_node.reference_node)

C22_NumberingIsPerList ==
    \A k \in DOMAIN numbered :
        numbered[k].n
            = 1 + Cardinality({j \in 1..(k - 1) : ListOfNumber(j) = ListOfNumber(k)})


(***************************************************************************)
(* C23: with preserve_formatting and list_bullets, a flat <ul> whose N     *)
(* items each hold one non-empty text t_i is returned as N lines, one      *)
(* newline between two of them, line i being two spaces (2 * list_depth),  *)
(* the bullet, one space and t_i: each item has exactly one bullet.        *)
(***************************************************************************)
\* node is an <li> of the outer list that holds one non-empty text only
IsTextItem(d, node) ==
    /\ d[node].local_name = "li"
    /\ first_child(d, node) # 0
    /\ d[first_child(d, node)].type = "text"
    /\ string_util_strip_str(d[first_child(d, node)].data) # ""
    /\ Descendants(d, node) = {first_child(d, node)}

\* the children of the outer list from child c on
RECURSIVE ChildrenFrom(_, _)
ChildrenFrom(d, c) ==
    IF c = 0 THEN <<>> ELSE <<c>> \o ChildrenFrom(d, next(d, c))

FlatUl ==
    /\ Done
    /\ xin.family = "list"
    /\ xin.dom[ListAt].local_name = "ul"
    /\ Opts.preserve_formatting
    /\ Opts.list_bullets
    /\ \A c \in Descendants(xin.dom, ListAt) :
           c \notin xskip /\ (parent(xin.dom, c) = ListAt => IsTextItem(xin.dom, c))

\* the lines of the items i..Len(items)
RECURSIVE BulletLines(_, _, _)
BulletLines(d, items, i) ==
    IF i > Len(items) THEN ""
    ELSE (IF i > 1 THEN "\n" ELSE "")
         \o Spaces(2) \o LIST_BULLET \o " " \o d[first_child(d, items[i])].data
         \o BulletLines(d, items, i + 1)

C23_FlatUlIsOneBulletLinePerItem ==
    FlatUl => result = BulletLines(xin.dom,
                           ChildrenFrom(xin.dom, first_child(xin.dom, ListAt)), 1)

\* a flat <ul> of two text items has been returned
C23_Witness ==
    /\ FlatUl
    /\ Len(ChildrenFrom(xin.dom, first_child(xin.dom, ListAt))) = 2
    /\ result # ""


(***************************************************************************)
(* C24: when the walk begins, its root is the one match of the main        *)
(* content pre-selection if exactly one node below the effective root      *)
(* (base_node, or the first element of a document) matches, and the        *)
(* effective root itself with no match or with two or more; the nodes of   *)
(* the skip query are the matches of the skip selectors below that root.   *)
(***************************************************************************)
EffectiveRoot ==
    IF xin.dom[xin.args.base_node].type = "document"
    THEN next_element_node(xin.dom, first_child(xin.dom, xin.args.base_node))
    ELSE xin.args.base_node

MainContentMatches ==
    {node \in Descendants(xin.dom, EffectiveRoot) :
        \E sel \in main_content_selector : SelectorMatches(xin.dom, node, sel)}

\* the state the pre-selection and the skip query leave: the walk stands
\* on its root and has visited nothing
WalkBegins ==
    /\ xpc = "walk"
    /\ walk.node = xroot
    /\ ~walk.is_end_tag
    /\ walk.extract_nodes = <<>>

C24_RootIsTheSingleMatch ==
    WalkBegins
        => /\ Cardinality(MainContentMatches) = 1 => xroot \in MainContentMatches
           /\ Cardinality(MainContentMatches) # 1 => xroot = EffectiveRoot
           /\ xskip = {node \in Descendants(xin.dom, xroot) :
                          \E sel \in skip_selectors(xin.args) :
                              SelectorMatches(xin.dom, node, sel)}

\* a walk begins on the one match as its root; a node the skip selectors
\* match lies outside that root and is not in the skip query's result
C24_Witness ==
    /\ WalkBegins
    /\ \E node \in Descendants(xin.dom, EffectiveRoot) \ xskip :
           \E sel \in skip_selectors(xin.args) : SelectorMatches(xin.dom, node, sel)
    /\ Cardinality(MainContentMatches) = 1
    /\ xroot # EffectiveRoot


(***************************************************************************)
(* One call of strip_str (warc.pyx) on its own: the argument is any string *)
(* of white space and other bytes up to MaxStripLen bytes.                 *)
(***************************************************************************)
StripAlphabet == {" ", "\t", "a"}

RECURSIVE StringsOf(_)
StringsOf(n) ==
    IF n = 0 THEN {""}
    ELSE {""} \cup {c \o t : c \in StripAlphabet, t \in StringsOf(n - 1)}

StripInputs == StringsOf(MaxStripLen)

InitStrip ==
    /\ strip_arg \in StripInputs
    /\ strip_ret = <<>>
    /\ WarcIdle
    /\ ExtractIdle
    /\ ClassifyIdle

\* the call and its return
StripCall ==
    /\ strip_ret = <<>>
    /\ strip_ret' = <<strip_str(strip_arg)>>
    /\ UNCHANGED <<strip_arg, wvars, xvars, cvars>>

NextStrip == StripCall

SpecStrip == InitStrip /\ [][NextStrip]_vars

(***************************************************************************)
(* C25: strip_str(s) is s without its leading and trailing white space:    *)
(* s is a run of white space, the result, and a run of white space, and    *)
(* the result is empty or begins and ends with a byte that is no white     *)
(* space (so that it is empty when s is empty or all white space).         *)
(***************************************************************************)
AllSpace(s) == \A i \in 0..(Len(s) - 1) : isspace(At(s, i))

IsStripOf(r, s) ==
    /\ r = "" \/ (~isspace(At(r, 0)) /\ ~isspace(At(r, Len(r) - 1)))
    /\ \E i \in 0..Len(s) :
           /\ i + Len(r) <= Len(s)
           /\ SubSeq(s, i + 1, i + Len(r)) = r
           /\ AllSpace(SubSeq(s, 1, i))
           /\ AllSpace(SubSeq(s, i + Len(r) + 1, Len(s)))

C25_StripRemovesOuterWhitespace ==
    strip_ret # <<>> => IsStripOf(strip_ret[1], strip_arg)


(***************************************************************************)
(* One call of _is_main_content_node on its own.  The documents are a      *)
(* <body> with up to MaxNest <div> nested in one another and, innermost,   *)
(* the element the classifier is called on, which holds a text.  A footer  *)
(* may be followed by a text, by an element or by both, and the <div> it   *)
(* stands in by an element.                                                *)
(***************************************************************************)
ClassifyTags == {"footer", "div", "span", "a", "main"}

ClassifyClasses == ClassVocabulary \cup {""}

FollowedBy == {"nothing", "text", "element", "text and element"}

\* the <div> chain: wrappers at the depths 3 .. 2 + nest
RECURSIVE Wrappers(_, _)
Wrappers(i, nest) ==
    IF i > nest THEN <<>>
    ELSE <<Element("div", 2 + i, NoAttrs)>> \o Wrappers(i + 1, nest)

ClassifyAttrs(cls, hidden) ==
    (IF cls # "" THEN [class |-> cls] ELSE NoAttrs)
        @@ (IF hidden THEN [hidden |-> ""] ELSE NoAttrs)

ClassifyDoc(nest, tag, cls, hidden, after, uncle) ==
    BodyAt \o Wrappers(1, nest)
    \o <<Element(tag, 3 + nest, ClassifyAttrs(cls, hidden)), Text(4 + nest, "t")>>
    \o (IF after \in {"text", "text and element"}
        THEN <<Text(3 + nest, "v")>> ELSE <<>>)
    \o (IF after \in {"element", "text and element"}
        THEN <<Element("p", 3 + nest, NoAttrs)>> ELSE <<>>)
    \o (IF uncle THEN <<Element("p", 2 + nest, NoAttrs)>> ELSE <<>>)

\* the element the classifier is called on
TargetOf(nest) == Len(BodyAt) + nest + 1

ClassifyInputs ==
    {[nest |-> nest, after |-> after, uncle |-> uncle,
      doc |-> ClassifyDoc(nest, tag, cls, hidden, after, uncle)] :
        nest \in 0..MaxNest, tag \in ClassifyTags, cls \in ClassifyClasses,
        hidden \in BOOLEAN, after \in {"nothing"}, uncle \in {FALSE}}
    \cup
    {[nest |-> nest, after |-> after, uncle |-> uncle,
      doc |-> ClassifyDoc(nest, "footer", cls, FALSE, after, uncle)] :
        nest \in 0..MaxNest, cls \in {"", "x"}, after \in FollowedBy,
        uncle \in BOOLEAN}

InitClassify ==
    /\ \E in \in ClassifyInputs :
           /\ cdoc = in.doc
           /\ cnode = TargetOf(in.nest)
           /\ (in.uncle => in.nest > 0)
    /\ callow \in BOOLEAN
    /\ cret = <<>>
    /\ WarcIdle
    /\ ExtractIdle
    /\ StripIdle

\* the call and its return
ClassifyCall ==
    /\ cret = <<>>
    /\ cret' = <<_is_main_content_node(cdoc, cnode, callow)>>
    /\ UNCHANGED <<cdoc, cnode, callow, wvars, xvars, svars>>

NextClassify == ClassifyCall

SpecClassify == InitClassify /\ [][NextClassify]_vars

(***************************************************************************)
(* Vocabulary of the properties of the classifier.                         *)
(***************************************************************************)
Classified == cret # <<>>

Accepted == Classified /\ cret[1]

Rejected == Classified /\ ~cret[1]

TargetTag == cdoc[cnode].local_name

TargetClass == get_node_attr_sv(cdoc, cnode, "class")

\* the number of steps from the element up to <body>
RECURSIVE StepsToBody(_, _)
StepsToBody(d, node) ==
    IF d[node].local_name = "body" \/ parent(d, node) = 0 THEN 0
    ELSE 1 + StepsToBody(d, parent(d, node))

TargetDepth == StepsToBody(cdoc, cnode)

\* an element follows node among its siblings
ElementFollows(d, node) ==
    \E j \in (node + 1)..Len(d) :
        /\ parent(d, j) = parent(d, node)
        /\ d[j].type = "element"

\* an element follows node, or one of the elements it is nested in below
\* the direct child of <body>
RECURSIVE ElementFollowsChain(_, _)
ElementFollowsChain(d, node) ==
    IF parent(d, node) = 0 \/ d[parent(d, node)].local_name = "body" THEN FALSE
    ELSE ElementFollows(d, node) \/ ElementFollowsChain(d, parent(d, node))

(***************************************************************************)
(* C26: the footer rule rejects a <footer> only when it is 3 or more       *)
(* levels below <body> and no element follows it or an element it is       *)
(* nested in, up to the direct child of <body>: a <footer> that has no     *)
(* attribute any other rule looks at and is rejected meets both, and one   *)
(* less than 3 levels deep, or with an element following at some level,    *)
(* is accepted.                                                            *)
(***************************************************************************)
PlainFooter ==
    /\ Classified
    /\ TargetTag = "footer"
    /\ DOMAIN cdoc[cnode].attrs = {}

C26_FooterRejectedOnlyWhenDeepAndLast ==
    PlainFooter
        => (Rejected => (TargetDepth >= FooterDepth
                         /\ ~ElementFollowsChain(cdoc, cnode)))


(***************************************************************************)
(* C27: the sign-in, post-meta and social rules reject exactly below the   *)
(* depth guard.  An element, inline or block, whose class matches one of   *)
(* the three patterns and that no earlier rule rejects is rejected when it *)
(* lies more than MetaDepth levels below <body>, and these rules reject    *)
(* no element at MetaDepth levels or less.                                 *)
(***************************************************************************)
\* class values of the three rules that no other rule of the classifier
\* matches, apart from the whitelist of article elements
MetaClasses == {"login", "post-meta", "share"}

MetaCandidate ==
    /\ Classified
    /\ TargetTag \in {"div", "span", "a"}
    /\ DOMAIN cdoc[cnode].attrs = {"class"}
    /\ TargetClass \in MetaClasses

C27_MetaRulesRejectExactlyBelowDepthGuard ==
    MetaCandidate => (Rejected <=> TargetDepth > MetaDepth)


(***************************************************************************)
(* C28: the classifier is a cascade in the order of its sections.  With no *)
(* rejection by a rule of Section A or B: a block element whose class      *)
(* matches the article pattern is accepted also when the class matches a   *)
(* rejecting pattern of Section C, and an inline element is accepted       *)
(* whatever pattern of Section C its class matches; <main> is accepted     *)
(* whatever its class, as no rule of Section B or C is consulted for it.   *)
(***************************************************************************)
ClassAndId == IF TargetClass = "" THEN "" ELSE TargetClass \o " "

SectionCRejects ==
    \/ \E r \in {"header_cls_regex", "footer_cls_regex", "nav_cls_regex",
                 "recommended_cls_regex", "search_cls_regex",
                 "sidebar_cls_regex", "modal_cls_regex"} :
           regex_search_not_empty(ClassAndId, r)
    \/ (~callow /\ regex_search_not_empty(ClassAndId, "comments_cls_regex"))

\* a rule of Section A applies to the called element: of the attributes of
\* Section A the documents have `hidden` only
SectionARejects ==
    \/ lxb_dom_element_has_attribute(cdoc, cnode, "hidden")
    \/ TargetTag = "footer"

SectionBRejects ==
    \/ regex_search_not_empty(TargetClass, "display_cls_regex")
    \/ (TargetTag \in {"a", "div", "li"}
        /\ regex_search_not_empty(ClassAndId, "skip_link_cls_regex"))
    \/ (TargetTag \in {"div", "a"} /\ TargetDepth > MetaDepth
        /\ \E r \in {"signin_cls_regex", "post_meta_cls_regex",
                     "social_cls_regex"} :
               regex_search_not_empty(TargetClass, r))
    \/ regex_search_not_empty(ClassAndId, "logo_cls_regex")
    \/ regex_search_not_empty(ClassAndId, "ads_cls_regex")

C28_CascadeInSectionOrder ==
    (Classified /\ ~SectionARejects)
        => /\ TargetTag = "main" => Accepted
           /\ (TargetTag = "div" /\ ~SectionBRejects
               /\ regex_search_not_empty(ClassAndId, "article_cls_regex"))
                  => Accepted
           /\ (TargetTag \in {"span", "a"} /\ ~SectionBRejects) => Accepted

\* a block element whose class matches the article pattern and a rejecting
\* pattern of Section C has been accepted
C28_Witness ==
    /\ Accepted
    /\ ~SectionARejects
    /\ ~SectionBRejects
    /\ TargetTag = "div"
    /\ regex_search_not_empty(ClassAndId, "article_cls_regex")
    /\ SectionCRejects


(***************************************************************************)
(* C29: the list tracking of the serializer is balanced.  While            *)
(* _serialize_extract_nodes runs, list_depth is the size of the            *)
(* list_numbering stack and no pop has been applied to the empty stack;    *)
(* and when its loop has passed every node, so that every list and every   *)
(* stray <li> has closed, every counter pushed has been popped and         *)
(* list_depth is 0 again.                                                  *)
(***************************************************************************)
LoopEnded == Serializing /\ ser_i > Len(walk.extract_nodes)

C29_ListTrackingIsBalanced ==
    Serializing
        => /\ ser.list_depth = Len(ser.list_numbering)
           /\ ~ser.popped_empty
           /\ LoopEnded => (ser.list_depth = 0 /\ ser.list_numbering = <<>>)
=============================================================================
